---- MODULE Spec2Model ----
(***************************************************************************)
(* Trust-state lifecycle of the VoIP onboarding API: the trusted_ips table, *)
(* the FirewallService operations that push trust/untrust commands to a    *)
(* FreePBX host over SSH, and the APScheduler job that sweeps expired rows. *)
(*                                                                         *)
(* The application is one asyncio event loop: a coroutine runs without     *)
(* interruption between two awaits, so every action below is one such      *)
(* segment.  The only await of the modelled code is the SSH round trip of  *)
(* FirewallService._run_command; it is answered in the action that resumes the    *)
(* coroutine, which runs on to the next await or to the end.               *)
(* Time is counted in hours (the unit of IP_EXPIRATION_HOURS).             *)
(***************************************************************************)
EXTENDS Integers, Sequences, FiniteSets, TLC

\* ------------------------------------------------------------------ bounds
NumCalls == 2
MaxTime == 4
MaxStarted == 2
MaxUserId == 3
MaxAccountId == 2
MaxZone == 2
MaxAdminId == 3

\* --------------------------------------------------------------- constants
IP_EXPIRATION_HOURS == 2
\* (bug) the job is added with max_instances=2
TwoInstances == 1 + 1
\* add_job without max_instances: APScheduler's default of one instance
MaxInstances == 1

\* None / SQL NULL (distinct from the integer 0, which Python also takes as
\* false)
NULL == 0 - 1

\* ----------------------------------------------------------------- text
\* A text is the sequence of its pieces: a piece is a comma, a newline, a
\* blank or a tab, or a run of other characters.
Whitespace == {" ", "\t", "\n"}

\* str.lstrip(), str.rstrip(), str.strip()
RECURSIVE LStrip(_)
LStrip(t) == IF t # <<>> /\ Head(t) \in Whitespace THEN LStrip(Tail(t)) ELSE t

RECURSIVE RStrip(_)
RStrip(t) ==
    IF t # <<>> /\ t[Len(t)] \in Whitespace
    THEN RStrip(SubSeq(t, 1, Len(t) - 1)) ELSE t

Strip(t) == RStrip(LStrip(t))

\* str.split(sep): the fields between the separators, at least one
RECURSIVE Split(_, _)
Split(t, sep) ==
    IF \E i \in 1..Len(t) : t[i] = sep
    THEN LET i == CHOOSE j \in 1..Len(t) :
                    t[j] = sep /\ \A q \in 1..(j - 1) : t[q] # sep
         IN <<SubSeq(t, 1, i - 1)>> \o Split(SubSeq(t, i + 1, Len(t)), sep)
    ELSE <<t>>

\* the string a text stands for
RECURSIVE Str(_)
Str(t) == IF t = <<>> THEN "" ELSE Head(t) \o Str(Tail(t))

\* --------------------------------------------------------- get_client_ip
\* the login requests: the X-Forwarded-For header as a text (<<>> when it is
\* absent), the X-Real-IP header ("" when absent) and request.client.host
\* ("" when request.client is None)
Requests ==
    {[forwarded |-> <<>>, real_ip |-> "", client |-> "10.0.0.5"],
     [forwarded |-> <<>>, real_ip |-> "10.0.0.5", client |-> "10.0.0.1"],
     [forwarded |-> <<"10.0.0.5", ",", " ", "10.0.0.1">>, real_ip |-> "",
      client |-> "10.0.0.1"],
     [forwarded |-> <<" ", "10.0.0.6", ";", "reboot", ",", "10.0.0.1">>,
      real_ip |-> "", client |-> "10.0.0.1"],
     [forwarded |-> <<" ", ",", "10.0.0.6">>, real_ip |-> "10.0.0.6",
      client |-> "10.0.0.1"],
     [forwarded |-> <<>>, real_ip |-> "", client |-> ""]}

\* get_client_ip(request): the first entry of X-Forwarded-For, stripped, else
\* X-Real-IP, else the peer's address, else "unknown"
get_client_ip(request) ==
    IF request.forwarded # <<>>
    THEN Str(Strip(Split(request.forwarded, ",")[1]))
    ELSE IF request.real_ip # "" THEN request.real_ip
    ELSE IF request.client # "" THEN request.client
    ELSE "unknown"

\* what login gets as client_ip
ClientIps == {get_client_ip(request) : request \in Requests}

\* if client_ip and client_ip != "unknown":
HasClientIp(ip) == ip # "" /\ ip # "unknown"

\* the strings that reach trust_ip as an address
Addrs == {ip \in ClientIps : HasClientIp(ip)}

Calls == 1..NumCalls
Runs == 1..2

\* the truth value Python gives an Optional[int] in `if x:`
Truthy(x) == x # NULL /\ x # 0

\* users table at startup: user id -> account_id (NULL when the user has no
\* SSH account)
UserIds == {1, 2, 3}
UserAccount == (1 :> 1) @@ (2 :> 2) @@ (3 :> NULL)
\* ssh_accounts table at startup: account id -> host
AccountHost == (1 :> "pbx1") @@ (2 :> "pbx2")
\* settings.freepbx_host, the host of the default service instance: the PBX
\* the installation began with, which is also the host of account 1
DefaultHost == "pbx1"

\* the unique columns of the users table
UserEmail == (1 :> "a@x") @@ (2 :> "b@x") @@ (3 :> "c@x")
UserExtension == (1 :> "101") @@ (2 :> "102") @@ (3 :> "103")
\* the email and extension a request to create a user can give (two users,
\* and one that has the email of the one and the extension of the other)
UserInputs ==
    {[email |-> "a@x", sip_extension |-> "101"],
     [email |-> "b@x", sip_extension |-> "102"],
     [email |-> "b@x", sip_extension |-> "101"]}
\* the name (a unique column) and host a request to create an account can give
AccountInputs ==
    {[name |-> AccountHost[a], host |-> AccountHost[a]] : a \in DOMAIN AccountHost}

\* the two tables at startup, as rows
InitialUsers ==
    {[id |-> u, email |-> UserEmail[u], sip_extension |-> UserExtension[u],
      account_id |-> UserAccount[u]] : u \in UserIds}
InitialAccounts ==
    {[id |-> a, name |-> AccountHost[a], host |-> AccountHost[a]] : a \in DOMAIN AccountHost}

\* where the database raises in a run of the cleanup job: nowhere, in the
\* select of the expired rows, or in the delete and commit at its end
DbResults == {"ok", "select", "commit"}
Hosts == {DefaultHost} \cup {AccountHost[a] : a \in DOMAIN AccountHost}

\* What one SSH round trip can produce: stdout with the word Success, stdout
\* without it, or an exception (asyncssh.Error or any other).
Stdouts == {"Success", "Error"}
Replies == Stdouts \cup {"Exception"}

\* now: the clock; rows: the trusted_ips table; remote: the trusted zone of
\* each host's firewall; calls: the requests in flight; sw: the instances of
\* the cleanup job; instances: the scheduler's count of running instances.
\* skipped (the trigger fired during a run and was dropped), started (the
\* requests begun so far, at most MaxStarted) and last (the call that returned
\* most recently) record what has happened; no action reads skipped or last.
\* users, accounts, admins: the users, ssh_accounts and admin_users tables;
\* adm: the admin request answered most recently (no action reads it).
VARIABLES now, rows, remote, calls, sw, instances, skipped, started, last,
          users, accounts, adm, admins

trustVars == <<now, rows, remote, calls, sw, instances, skipped, started, last>>
adminVars == <<users, accounts, adm, admins>>
vars == <<now, rows, remote, calls, sw, instances, skipped, started, last,
          users, accounts, adm, admins>>

\* --------------------------------------------------------------- TrustedIP
\* (bug) the timedelta is left out
calculate_expiry_now(hours) == now

\* TrustedIP.calculate_expiry: datetime.utcnow() + timedelta(hours=hours)
calculate_expiry(hours) == now + hours

\* id INTEGER PRIMARY KEY of the default SQLite store: largest id in use + 1
NextId == IF rows = {} THEN 1
          ELSE (CHOOSE r \in rows : \A q \in rows : q.id <= r.id).id + 1

\* (bug) created_at is filled in from a database clock that runs a TTL ahead
NewRowClockAhead(ip, user_id) ==
    [id |-> NextId, ip_address |-> ip, user_id |-> user_id,
     created_at |-> now + IP_EXPIRATION_HOURS,
     expires_at |-> calculate_expiry(IP_EXPIRATION_HOURS)]

\* TrustedIP(ip_address=ip, user_id=user_id, expires_at=...), created_at by
\* its server default func.now()
NewRow(ip, user_id) ==
    [id |-> NextId, ip_address |-> ip, user_id |-> user_id,
     created_at |-> now, expires_at |-> calculate_expiry(IP_EXPIRATION_HOURS)]

\* (bug) the lookup misses the row of the address
ExistingMissed(ip) == {}

\* db.query(TrustedIP).filter(TrustedIP.ip_address == ip)
Existing(ip) == {r \in rows : r.ip_address = ip}

\* .first(): the matching row with the lowest id
First(S) == CHOOSE r \in S : \A q \in S : r.id <= q.id

\* unique=True on ip_address: a commit that would leave two rows with the
\* same address raises IntegrityError
UniqueViolation(table) ==
    \E r1, r2 \in table : r1 # r2 /\ r1.ip_address = r2.ip_address

\* the "Success" in result test
HasSuccess(out) == out = "Success"

\* ------------------------------------------------------ FirewallService
\* every order in which .all() can return the rows of S
Orders(S) ==
    {f \in [1..Cardinality(S) -> S] : \A a, b \in 1..Cardinality(S) : f[a] = f[b] => a = b}

Range(f) == {f[x] : x \in DOMAIN f}

\* a request slot: idle, or suspended in the await of _run_command
\* (overlap: another trust_ip call for the same address was suspended when
\* this one began)
IdleCall == [pc |-> "idle", op |-> "none", ip |-> "", user |-> NULL, overlap |-> FALSE]

\* the exceptions that are instances of FirewallError
IsFirewallError(outcome) ==
    outcome \in {"FirewallError", "FirewallError(IntegrityError)",
                 "FirewallError(OperationalError)"}

\* (bug) login awaits trust_ip without the try/except
LoginResponseUncaught(outcome) ==
    IF outcome \in {"True", "False"} THEN "token" ELSE "500"

\* login after trust_ip: its return value is dropped, a FirewallError is
\* caught and printed, and the token is returned; any other exception leaves
\* the handler (500 Internal Server Error)
LoginResponse(outcome) ==
    IF outcome \in {"True", "False"} \/ IsFirewallError(outcome)
    THEN "token" ELSE "500"

\* what the call that returned most recently was and how it ended (outcome:
\* of trust_ip or untrust_ip; http: the response of the login request)
NoReturn ==
    [op |-> "none", ip |-> "", outcome |-> "none", overlap |-> FALSE, http |-> "none"]
Returned(k, outcome) ==
    [op |-> k.op, ip |-> k.ip, outcome |-> outcome, overlap |-> k.overlap,
     http |-> IF k.op = "trust" THEN LoginResponse(outcome) ELSE "none"]

\* the trust_ip calls for ip that are suspended in their await
TrustsInFlight(ip) ==
    {d \in Calls : calls[d].pc = "await" /\ calls[d].op = "trust" /\ calls[d].ip = ip}

\* a new request takes the first slot that is idle
FreeSlot(c) ==
    /\ calls[c].pc = "idle"
    /\ \A d \in Calls : calls[d].pc = "idle" => c <= d

\* session state after the flush of _save_trusted_ip, before the constraint
Upsert(ip, user_id) ==
    IF Existing(ip) # {}
    THEN LET e == First(Existing(ip)) IN
         (rows \ {e}) \cup
         {[e EXCEPT !.expires_at = calculate_expiry(IP_EXPIRATION_HOURS),
                    !.user_id = user_id]}
    ELSE rows \cup {NewRow(ip, user_id)}

\* db.commit() of _save_trusted_ip raises
SaveRaises(ip, user_id) == UniqueViolation(Upsert(ip, user_id))

\* (bug) always insert, into a table without the unique constraint
save_always_insert(ip, user_id) == rows \cup {NewRow(ip, user_id)}

\* table after _save_trusted_ip; unchanged when the commit raises
save_trusted_ip(ip, user_id) ==
    IF SaveRaises(ip, user_id) THEN rows ELSE Upsert(ip, user_id)

\* login with a wrong email or password: authenticate_user returns nothing
LoginUnauthorized ==
    /\ started < MaxStarted
    /\ started' = started + 1
    /\ last' = [NoReturn EXCEPT !.op = "login", !.outcome = "unauthorized",
                                !.http = "401"]
    /\ UNCHANGED <<now, rows, remote, calls, sw, instances, skipped>>
    /\ UNCHANGED adminVars

\* what get_client_ip gives when there is no address to trust: "unknown"
\* (no client), or the empty first entry of X-Forwarded-For
NoClientIps == {ip \in ClientIps : ~HasClientIp(ip)}

\* login with valid credentials and no client address: the trust step is
\* skipped and the token returned
LoginWithoutAddress(ip) ==
    /\ ~HasClientIp(ip)
    /\ started < MaxStarted
    /\ started' = started + 1
    /\ last' = [NoReturn EXCEPT !.op = "login", !.ip = ip, !.http = "token"]
    /\ UNCHANGED <<now, rows, remote, calls, sw, instances, skipped>>
    /\ UNCHANGED adminVars

\* login -> firewall_service.trust_ip(client_ip, db, user_id): the coroutine
\* runs up to the await of _run_command
TrustIpStart(c, ip, u) ==
    /\ HasClientIp(ip)
    /\ FreeSlot(c)
    /\ started < MaxStarted
    /\ started' = started + 1
    /\ calls' = [calls EXCEPT ![c] = [pc |-> "await", op |-> "trust", ip |-> ip,
                                      user |-> u,
                                      overlap |-> TrustsInFlight(ip) # {}]]
    /\ UNCHANGED <<now, rows, remote, sw, instances, skipped, last>>
    /\ UNCHANGED adminVars

\* untrust_ip(ip, db) on the default service instance, up to the await
UntrustIpStart(c, ip) ==
    /\ FreeSlot(c)
    /\ started < MaxStarted
    /\ started' = started + 1
    /\ calls' = [calls EXCEPT ![c] = [pc |-> "await", op |-> "untrust", ip |-> ip,
                                      user |-> NULL, overlap |-> FALSE]]
    /\ UNCHANGED <<now, rows, remote, sw, instances, skipped, last>>
    /\ UNCHANGED adminVars

\* the firewalls after host h ran "fwconsole firewall <op> <ip>" with output
\* out (no change when the connection failed or the command was rejected)
RemoteAfter(h, op, ip, out) ==
    IF ~HasSuccess(out) THEN remote
    ELSE IF op = "trust" THEN [remote EXCEPT ![h] = @ \cup {ip}]
    ELSE [remote EXCEPT ![h] = @ \ {ip}]

\* where the database raises in _save_trusted_ip: nowhere, or in its commit
\* (the database cannot be written)
SaveResults == {"ok", "commit"}

\* what trust_ip does with the reply: raise, return False, or save and
\* return True (an exception of the save is re-raised as FirewallError)
TrustOutcome(k, out, db) ==
    IF out = "Exception" THEN "FirewallError"
    ELSE IF ~HasSuccess(out) THEN "False"
    ELSE IF db = "commit" THEN "FirewallError(OperationalError)"
    ELSE IF SaveRaises(k.ip, k.user) THEN "FirewallError(IntegrityError)"
    ELSE "True"

\* (bug) the row is saved whenever the command returned output
TrustRowsAnyOutput(k, out, db) ==
    IF out \in Stdouts /\ db = "ok" THEN save_trusted_ip(k.ip, k.user) ELSE rows

\* if success: self._save_trusted_ip(db, ip, user_id)
TrustRows(k, out, db) ==
    IF HasSuccess(out) /\ db = "ok" THEN save_trusted_ip(k.ip, k.user) ELSE rows

\* trust_ip from the await on: the default host answers the command, the
\* marker is tested, the row is saved on success
TrustIpResume(c, out, db) ==
    LET k == calls[c] IN
    /\ k.pc = "await" /\ k.op = "trust"
    /\ remote' = RemoteAfter(DefaultHost, "trust", k.ip, out)
    /\ rows' = TrustRows(k, out, db)
    /\ calls' = [calls EXCEPT ![c] = IdleCall]
    /\ last' = Returned(k, TrustOutcome(k, out, db))
    /\ UNCHANGED <<now, sw, instances, skipped, started>>
    /\ UNCHANGED adminVars

\* (bug) the delete has lost its filter
UntrustDeleteAll(ip, out) == IF HasSuccess(out) THEN {} ELSE rows

\* if success and db: delete the row
UntrustDelete(ip, out) == IF HasSuccess(out) THEN rows \ Existing(ip) ELSE rows

\* what untrust_ip does with the reply
UntrustOutcome(out) ==
    IF out = "Exception" THEN "FirewallError"
    ELSE IF HasSuccess(out) THEN "True" ELSE "False"

\* untrust_ip from the await on
UntrustIpResume(c, out) ==
    LET k == calls[c] IN
    /\ k.pc = "await" /\ k.op = "untrust"
    /\ remote' = RemoteAfter(DefaultHost, "untrust", k.ip, out)
    /\ rows' = UntrustDelete(k.ip, out)
    /\ calls' = [calls EXCEPT ![c] = IdleCall]
    /\ last' = Returned(k, UntrustOutcome(out))
    /\ UNCHANGED <<now, sw, instances, skipped, started>>
    /\ UNCHANGED adminVars

\* ---------------------------------------------------------- list_trusted
\* what "fwconsole firewall list trusted" prints for a zone: a header line,
\* then a line for each entry (entries: the entries in the order printed;
\* indent: the white space before each; gap: an empty line after the header)
ListingHeader == <<"Trusted", " ", "zone", ":">>

RECURSIVE EntryLines(_, _)
EntryLines(entries, indent) ==
    IF entries = <<>> THEN <<>>
    ELSE indent \o <<Head(entries), "\n">> \o EntryLines(Tail(entries), indent)

Render(l) ==
    ListingHeader \o <<"\n">> \o (IF l.gap THEN <<"\n">> ELSE <<>>)
        \o EntryLines(l.entries, l.indent)

\* the addresses is_ip_trusted is asked about and a zone can hold: those
\* trusted by logins and one entered on the host
ListedAddrs == Addrs \cup {"10.0.0.1"}

\* the listings of a zone: its entries in any order, a host address printed
\* as it is or with its prefix length
Listings(zone) ==
    {[entries |-> [i \in DOMAIN f |->
                      IF f[i] \in ListedAddrs THEN f[i] \o suffix ELSE f[i]],
      indent |-> indent, gap |-> gap] :
        f \in Orders(zone), suffix \in {"", "/32"},
        indent \in {<<>>, <<"\t">>, <<" ", " ">>}, gap \in BOOLEAN}

\* what the command gives: the text printed, or an exception
Printed(t) == [raised |-> FALSE, stdout |-> t]
Raised == [raised |-> TRUE, stdout |-> <<>>]

\* list_trusted: lines = result.strip().split('\n');
\* [line.strip() for line in lines[1:] if line.strip()]
list_trusted(result) ==
    LET lines == Split(Strip(result), "\n")
        stripped == [i \in 1..(Len(lines) - 1) |-> Str(Strip(lines[i + 1]))]
    IN SelectSeq(stripped, LAMBDA line : line # "")

\* (bug) only the bare address is looked for
is_ip_trusted_bare(ip, reply) ==
    IF reply.raised THEN "False"
    ELSE IF ip \in Range(list_trusted(reply.stdout)) THEN "True" ELSE "False"

\* is_ip_trusted: ip in trusted or f"{ip}/32" in trusted; an exception of
\* list_trusted gives False
is_ip_trusted(ip, reply) ==
    IF reply.raised THEN "False"
    ELSE IF \/ ip \in Range(list_trusted(reply.stdout))
            \/ ip \o "/32" \in Range(list_trusted(reply.stdout))
         THEN "True" ELSE "False"

\* is_ip_trusted(ip) on the default service instance: the host prints its
\* listing (reply: the text, or the exception of a failed command); the
\* coroutine reads and writes no state of the application between its start
\* and its return
IsIpTrusted(ip, reply) ==
    /\ last' = [NoReturn EXCEPT !.op = "is_ip_trusted", !.ip = ip,
                                !.outcome = is_ip_trusted(ip, reply)]
    /\ UNCHANGED <<now, rows, remote, calls, sw, instances, skipped, started>>
    /\ UNCHANGED adminVars

\* datetime.utcnow() advances
Tick ==
    /\ now < MaxTime
    /\ now' = now + 1
    /\ UNCHANGED <<rows, remote, calls, sw, instances, skipped, started, last>>
    /\ UNCHANGED adminVars

\* ------------------------------------------------------------- scheduler
\* a job instance: idle (with the addresses its last run failed on and
\* deleted) or suspended in the await of _run_command for expired[i]
\* (end: how its last run ended)
IdleRun == [pc |-> "idle", cutoff |-> 0, expired |-> <<>>, i |-> 0,
            removed_ips |-> {}, failed |-> {}, deleted |-> {}, end |-> "none"]

\* db.query(User).filter(User.id == id)
UserById(id) == {u \in users : u.id = id}

\* user.ssh_account: the ssh_accounts row that the user's account_id names
SshAccount(u) == {a \in accounts : a.id = u.account_id}

\* if trusted_ip.user_id: user = ...; if user and user.ssh_account:
HasAccount(row) ==
    /\ Truthy(row.user_id)
    /\ \E u \in UserById(row.user_id) : SshAccount(u) # {}

\* FirewallService.from_ssh_account(user.ssh_account).host
HostOf(row) ==
    (CHOOSE a \in accounts : \E u \in UserById(row.user_id) : a \in SshAccount(u)).host

\* the loop runs on without an await over rows that have no SSH account:
\* index of the next row an untrust command is sent for, Len + 1 if none
NextAwait(exp, from) ==
    IF \E j \in from..Len(exp) : HasAccount(exp[j])
    THEN CHOOSE j \in from..Len(exp) :
            HasAccount(exp[j]) /\ \A q \in from..(j - 1) : ~HasAccount(exp[q])
    ELSE Len(exp) + 1

\* (bug) rows are taken as expired one TTL early
IsExpiredAtEarly(row, t) == row.expires_at < t + IP_EXPIRATION_HOURS

\* TrustedIP.expires_at < datetime.utcnow()
IsExpiredAt(row, t) == row.expires_at < t

\* (bug) the delete is never committed
AfterDeleteUncommitted == rows

\* db.query(TrustedIP).filter(TrustedIP.expires_at < datetime.utcnow()).delete()
\* db.commit()
AfterDelete == {x \in rows : ~IsExpiredAt(x, now)}

\* (bug) the delete is rolled back every time
DeleteRowsRolledBack(db) == rows

\* the table after the delete and commit of the job; an exception of either
\* leaves it as it was (the session is closed without a commit)
DeleteRows(db) == IF db = "commit" THEN rows ELSE AfterDelete

\* (bug) the delete and commit stand after the try block
JobEndEscapes(db) ==
    IF db = "commit" THEN "raised"
    ELSE IF db = "select" THEN "error logged" ELSE "returned"

\* except Exception as e: print(f"Error in cleanup job: {e}"); finally:
\* db.close() -- an exception of the select, the delete or the commit is
\* printed and the coroutine returns normally
JobEnd(db) == IF db = "ok" THEN "returned" ELSE "error logged"

\* the instance once the loop is over: delete, commit, close
Finished(run, db) ==
    [IdleRun EXCEPT !.failed = run.failed,
                    !.deleted = {x.ip_address : x \in rows \ DeleteRows(db)},
                    !.end = JobEnd(db)]

\* cleanup_expired_ips_job from its first line to its first await (or its end)
StartRun(r, exp, db) ==
    LET run == [IdleRun EXCEPT !.cutoff = now, !.expired = exp]
        j == NextAwait(exp, 1)
    IN IF db = "select"
       THEN /\ sw' = [sw EXCEPT ![r] = [IdleRun EXCEPT !.end = JobEnd(db)]]
            /\ UNCHANGED <<rows, instances>>
       ELSE IF exp = <<>>
       THEN /\ sw' = [sw EXCEPT ![r] = [IdleRun EXCEPT !.end = "returned"]]
            /\ UNCHANGED <<rows, instances>>
       ELSE IF j > Len(exp)
       THEN /\ sw' = [sw EXCEPT ![r] = Finished(run, db)]
            /\ rows' = DeleteRows(db)
            /\ UNCHANGED instances
       ELSE /\ sw' = [sw EXCEPT ![r] = [run EXCEPT !.pc = "await", !.i = j]]
            /\ instances' = instances + 1
            /\ UNCHANGED rows

\* the IntervalTrigger of start_scheduler fires: APScheduler submits the job
\* unless max_instances (default 1) instances of it are running
Trigger(db) ==
    /\ IF instances >= MaxInstances
       THEN /\ skipped' = TRUE
            /\ UNCHANGED <<rows, sw, instances>>
       ELSE /\ skipped' = FALSE
            /\ \E r \in Runs :
                 /\ sw[r].pc = "idle"
                 /\ \A q \in Runs : sw[q].pc = "idle" => r <= q
                 /\ \E exp \in Orders({x \in rows : IsExpiredAt(x, now)}) :
                      StartRun(r, exp, db)
    /\ UNCHANGED <<now, remote, calls, started, last>>
    /\ UNCHANGED adminVars

\* (bug) the try/except is around the loop: an exception ends it
AfterReplyAbort(run, out) ==
    IF out = "Exception" THEN Len(run.expired) + 1
    ELSE NextAwait(run.expired, run.i + 1)

\* the for loop after the reply for expired[i]: the try/except is inside the
\* loop, so an exception is logged and the loop goes on with the next row
AfterReply(run, out) == NextAwait(run.expired, run.i + 1)

\* the job from one await to the next (or through the delete to its end):
\* the account's host answers the untrust command, the result is recorded
SweepResume(r, out, db) ==
    LET run == sw[r]
        row == run.expired[run.i]
        rec == IF out = "Exception"
               THEN [run EXCEPT !.failed = @ \cup {row.ip_address}]
               ELSE [run EXCEPT !.removed_ips = @ \cup {row.ip_address}]
        j == AfterReply(run, out)
    IN
    /\ run.pc = "await"
    /\ db # "select"
    /\ remote' = RemoteAfter(HostOf(row), "untrust", row.ip_address, out)
    /\ IF j > Len(run.expired)
       THEN /\ sw' = [sw EXCEPT ![r] = Finished(rec, db)]
            /\ rows' = DeleteRows(db)
            /\ instances' = instances - 1
            /\ skipped' = FALSE
       ELSE /\ sw' = [sw EXCEPT ![r] = [rec EXCEPT !.i = j]]
            /\ UNCHANGED <<rows, instances, skipped>>
    /\ UNCHANGED <<now, calls, started, last>>
    /\ UNCHANGED adminVars

\* ----------------------------------------------------------------- admin
\* The handlers of routers/admin.py and auth.register have no await: each
\* request is one step.  authed is the result of verify_admin_auth.

\* the admin request answered most recently
NoRequest == [op |-> "none", status |-> 0]

Answer(op, status) == [op |-> op, status |-> status]

\* the values a request can give for an account id: none, 0, or an id
AccountIdInputs == {NULL} \cup (0..MaxAccountId)

\* id INTEGER PRIMARY KEY: largest id in use + 1
NextIdOf(table) ==
    IF table = {} THEN 1
    ELSE (CHOOSE r \in table : \A q \in table : q.id <= r.id).id + 1

\* the users.account_id value names no row of ssh_accounts
Dangling(account_id) ==
    account_id # NULL /\ \A a \in accounts : a.id # account_id

\* POST /admin/accounts
CreateAccount(authed, name, host) ==
    /\ NextIdOf(accounts) <= MaxAccountId
    /\ IF ~authed
       THEN adm' = Answer("create_account", 401) /\ UNCHANGED accounts
       ELSE IF \E a \in accounts : a.name = name
       THEN adm' = Answer("create_account", 400) /\ UNCHANGED accounts
       ELSE /\ accounts' = accounts \cup
                    {[id |-> NextIdOf(accounts), name |-> name, host |-> host]}
            /\ adm' = Answer("create_account", 201)
    /\ UNCHANGED users
    /\ UNCHANGED admins
    /\ UNCHANGED trustVars

\* db.query(User).filter(User.account_id == account_id)
UsersOfAccount(account_id) == {u \in users : u.account_id = account_id}

\* DELETE /admin/accounts/{account_id}
DeleteAccount(authed, account_id) ==
    /\ IF ~authed
       THEN adm' = Answer("delete_account", 401) /\ UNCHANGED accounts
       ELSE IF \A a \in accounts : a.id # account_id
       THEN adm' = Answer("delete_account", 404) /\ UNCHANGED accounts
       ELSE IF Cardinality(UsersOfAccount(account_id)) > 0
       THEN adm' = Answer("delete_account", 400) /\ UNCHANGED accounts
       ELSE /\ accounts' = {a \in accounts : a.id # account_id}
            /\ adm' = Answer("delete_account", 200)
    /\ UNCHANGED users
    /\ UNCHANGED admins
    /\ UNCHANGED trustVars

\* POST /admin/users; fk: the database enforces a foreign key on
\* users.account_id, and the commit of a row that names no account raises
CreateUser(authed, email, ext, account_id, fk) ==
    /\ NextIdOf(users) <= MaxUserId
    /\ IF ~authed
       THEN adm' = Answer("create_user", 401) /\ UNCHANGED users
       ELSE IF \E u \in users : u.email = email
       THEN adm' = Answer("create_user", 400) /\ UNCHANGED users
       ELSE IF \E u \in users : u.sip_extension = ext
       THEN adm' = Answer("create_user", 400) /\ UNCHANGED users
       ELSE IF Truthy(account_id) /\ \A a \in accounts : a.id # account_id
       THEN adm' = Answer("create_user", 400) /\ UNCHANGED users
       ELSE IF fk /\ Dangling(account_id)
       THEN adm' = Answer("create_user", 500) /\ UNCHANGED users
       ELSE /\ users' = users \cup
                    {[id |-> NextIdOf(users), email |-> email,
                      sip_extension |-> ext, account_id |-> account_id]}
            /\ adm' = Answer("create_user", 201)
    /\ UNCHANGED accounts
    /\ UNCHANGED admins
    /\ UNCHANGED trustVars

\* POST /auth/register: a user without an account
Register(email, ext) ==
    /\ NextIdOf(users) <= MaxUserId
    /\ IF \E u \in users : u.email = email
       THEN adm' = Answer("register", 400) /\ UNCHANGED users
       ELSE IF \E u \in users : u.sip_extension = ext
       THEN adm' = Answer("register", 400) /\ UNCHANGED users
       ELSE /\ users' = users \cup
                    {[id |-> NextIdOf(users), email |-> email,
                      sip_extension |-> ext, account_id |-> NULL]}
            /\ adm' = Answer("register", 201)
    /\ UNCHANGED accounts
    /\ UNCHANGED admins
    /\ UNCHANGED trustVars

\* DELETE /admin/users/{user_id}
DeleteUser(authed, user_id) ==
    /\ IF ~authed
       THEN adm' = Answer("delete_user", 401) /\ UNCHANGED users
       ELSE IF UserById(user_id) = {}
       THEN adm' = Answer("delete_user", 404) /\ UNCHANGED users
       ELSE /\ users' = users \ UserById(user_id)
            /\ adm' = Answer("delete_user", 200)
    /\ UNCHANGED accounts
    /\ UNCHANGED admins
    /\ UNCHANGED trustVars

\* ------------------------------------------------------------ admin users
\* the username and password a request can give, as its credentials or as
\* the admin to create (hashed_password is modelled by the password that
\* verify_password accepts for it)
AdminCredentials ==
    {[username |-> "root", password |-> "pw1"],
     [username |-> "ops", password |-> "pw2"],
     [username |-> "dev", password |-> "pw3"],
     [username |-> "ops", password |-> "bad"]}

\* verify_admin_credentials: the admin of that username, if the password is
\* the one of its hash
verify_admin_credentials(username, password) ==
    {a \in admins : a.username = username /\ a.password = password}

\* verify_admin_auth
verify_admin_auth(username, password) ==
    verify_admin_credentials(username, password) # {}

\* POST /admin/setup
SetupFirstAdmin(new) ==
    /\ NextIdOf(admins) <= MaxAdminId
    /\ IF Cardinality(admins) > 0
       THEN adm' = Answer("setup", 400) /\ UNCHANGED admins
       ELSE /\ admins' = admins \cup
                    {[id |-> NextIdOf(admins), username |-> new.username,
                      password |-> new.password]}
            /\ adm' = Answer("setup", 201)
    /\ UNCHANGED <<users, accounts>>
    /\ UNCHANGED trustVars

\* POST /admin/admin-users
CreateAdminUser(cred, new) ==
    /\ NextIdOf(admins) <= MaxAdminId
    /\ IF ~verify_admin_auth(cred.username, cred.password)
       THEN adm' = Answer("create_admin", 401) /\ UNCHANGED admins
       ELSE IF \E a \in admins : a.username = new.username
       THEN adm' = Answer("create_admin", 400) /\ UNCHANGED admins
       ELSE /\ admins' = admins \cup
                    {[id |-> NextIdOf(admins), username |-> new.username,
                      password |-> new.password]}
            /\ adm' = Answer("create_admin", 201)
    /\ UNCHANGED <<users, accounts>>
    /\ UNCHANGED trustVars

\* (bug) the guard lets the last admin go
IsLastAdminOffByOne(admin_count) == admin_count < 1

\* if admin_count <= 1: "Cannot delete the last admin user"
IsLastAdmin(admin_count) == admin_count <= 1

\* DELETE /admin/admin-users/{admin_id}
DeleteAdminUser(cred, admin_id) ==
    /\ IF ~verify_admin_auth(cred.username, cred.password)
       THEN adm' = Answer("delete_admin", 401) /\ UNCHANGED admins
       ELSE IF IsLastAdmin(Cardinality(admins))
       THEN adm' = Answer("delete_admin", 400) /\ UNCHANGED admins
       ELSE IF \A a \in admins : a.id # admin_id
       THEN adm' = Answer("delete_admin", 404) /\ UNCHANGED admins
       ELSE /\ admins' = {a \in admins : a.id # admin_id}
            /\ adm' = Answer("delete_admin", 200)
    /\ UNCHANGED <<users, accounts>>
    /\ UNCHANGED trustVars

\* ------------------------------------------------------------ specification
\* no trusted address, no request in flight, the job not running
TrustInit ==
    /\ now = 0
    /\ rows = {}
    /\ remote = [h \in Hosts |-> {}]
    /\ calls = [c \in Calls |-> IdleCall]
    /\ sw = [r \in Runs |-> IdleRun]
    /\ instances = 0
    /\ skipped = FALSE
    /\ started = 0
    /\ last = NoReturn

\* the trust lifecycle starts with the users and accounts set up
Init ==
    /\ TrustInit
    /\ users = InitialUsers
    /\ accounts = InitialAccounts
    /\ adm = NoRequest
    /\ admins = {}

\* the tables as they are created, the first admin set up
AdminInit ==
    /\ TrustInit
    /\ users = {}
    /\ accounts = {}
    /\ adm = NoRequest
    /\ admins = {[id |-> 1, username |-> "root", password |-> "pw1"]}

\* the tables as they are created
AdminUsersInit ==
    /\ TrustInit
    /\ users = {}
    /\ accounts = {}
    /\ adm = NoRequest
    /\ admins = {}

Next ==
    \/ Tick
    \/ LoginUnauthorized
    \/ \E ip \in NoClientIps : LoginWithoutAddress(ip)
    \/ \E c \in Calls, ip \in Addrs, u \in UserIds : TrustIpStart(c, ip, u)
    \/ \E c \in Calls, ip \in Addrs : UntrustIpStart(c, ip)
    \/ \E c \in Calls, out \in Replies, db \in SaveResults : TrustIpResume(c, out, db)
    \/ \E c \in Calls, out \in Replies : UntrustIpResume(c, out)
    \/ \E db \in DbResults : Trigger(db)
    \/ \E r \in Runs, out \in Replies, db \in DbResults : SweepResume(r, out, db)

Spec == Init /\ [][Next]_vars

AdminNext ==
    \/ \E cred \in AdminCredentials, a \in AccountInputs :
          CreateAccount(verify_admin_auth(cred.username, cred.password),
                        a.name, a.host)
    \/ \E cred \in AdminCredentials, id \in 1..MaxAccountId :
          DeleteAccount(verify_admin_auth(cred.username, cred.password), id)
    \/ \E cred \in AdminCredentials, u \in UserInputs,
          account_id \in AccountIdInputs, fk \in BOOLEAN :
          CreateUser(verify_admin_auth(cred.username, cred.password),
                     u.email, u.sip_extension, account_id, fk)
    \/ \E u \in UserInputs : Register(u.email, u.sip_extension)
    \/ \E cred \in AdminCredentials, id \in 1..MaxUserId :
          DeleteUser(verify_admin_auth(cred.username, cred.password), id)

\* the users and ssh_accounts tables under admin and registration requests,
\* from the empty tables that Base.metadata.create_all leaves (the requests
\* that change admin_users, which these only read, are in AdminUsersSpec)
AdminSpec == AdminInit /\ [][AdminNext]_vars

AdminUsersNext ==
    \/ \E new \in AdminCredentials : SetupFirstAdmin(new)
    \/ \E cred \in AdminCredentials, new \in AdminCredentials :
          CreateAdminUser(cred, new)
    \/ \E cred \in AdminCredentials, id \in 1..MaxAdminId :
          DeleteAdminUser(cred, id)

\* the admin_users table under setup, create-admin and delete-admin requests
AdminUsersSpec == AdminUsersInit /\ [][AdminUsersNext]_vars

\* what a firewall's trusted zone can hold besides single addresses: a
\* network entered on the host
NetworkEntry == "10.0.0.0/24"

\* the store as one login at time 0 leaves it, the default host's zone
\* holding any entries, at most MaxZone (its listing does not depend on the
\* store)
ListingInit ==
    /\ now = 0
    /\ rows \in {{}} \cup
                {{[id |-> 1, ip_address |-> a, user_id |-> 1, created_at |-> 0,
                   expires_at |-> IP_EXPIRATION_HOURS]} : a \in Addrs}
    /\ remote \in {[h \in Hosts |-> IF h = DefaultHost THEN zone ELSE {}] :
                      zone \in {z \in SUBSET (ListedAddrs \cup {NetworkEntry}) :
                                    Cardinality(z) <= MaxZone}}
    /\ calls = [c \in Calls |-> IdleCall]
    /\ sw = [r \in Runs |-> IdleRun]
    /\ instances = 0
    /\ skipped = FALSE
    /\ started = 0
    /\ last = NoReturn
    /\ users = InitialUsers
    /\ accounts = InitialAccounts
    /\ adm = NoRequest
    /\ admins = {}

ListingNext ==
    \E ip \in ListedAddrs,
       reply \in {Printed(Render(l)) : l \in Listings(remote[DefaultHost])}
                   \cup {Raised} :
        IsIpTrusted(ip, reply)

\* is_ip_trusted called on any zone of the default host
ListingSpec == ListingInit /\ [][ListingNext]_vars

\* the command a run of the job awaits returns or raises
CommandReturns ==
    \E r \in Runs, out \in Replies, db \in DbResults : SweepResume(r, out, db)

\* a run of the job gets through its last command, its delete and its commit
RunCompletes ==
    \E r \in Runs, out \in Replies :
        SweepResume(r, out, "ok") /\ sw'[r].pc = "idle"

\* The IntervalTrigger of start_scheduler fires every 10 minutes for as long
\* as the process runs, and a remote command that is awaited returns or
\* raises; the database is not out of order for ever (a select that can be
\* made is made, and the commit does not fail in every run).
FairSpec ==
    /\ Spec
    /\ WF_vars(Trigger("ok"))
    /\ WF_vars(CommandReturns)
    /\ SF_vars(RunCompletes)

\* The IntervalTrigger fires for as long as the process runs.  A command that
\* is awaited returns only if the host answers or the connection breaks:
\* _run_command has no timeout around asyncssh.connect or conn.run, so
\* nothing on this side ends the wait and no return is guaranteed.
HungHostSpec == Spec /\ WF_vars(Trigger("ok"))

\* ------------------------------------------------------------------ claims
TrustReturns(c) ==
    calls[c].pc = "await" /\ calls[c].op = "trust" /\ calls'[c].pc = "idle"

UntrustReturns(c) ==
    calls[c].pc = "await" /\ calls[c].op = "untrust" /\ calls'[c].pc = "idle"

RunEnds(r) == sw[r].pc = "await" /\ sw'[r].pc = "idle"

Running == {r \in Runs : sw[r].pc # "idle"}

\* a row of rows' that is new or has a later expiry than the row of rows with
\* the same id
Written(a) ==
    {x \in rows' : /\ x.ip_address = a
                   /\ \A y \in rows : y.id = x.id /\ y.ip_address = a
                                        => y.expires_at < x.expires_at}

\* C1: a trust(A) whose remote command fails (exception, or output without
\* the success marker) leaves the store as it was, and a row for A is
\* created or extended only in the step in which a trust(A) returns True
\* after a successful remote command.
C1_FailedTrustLeavesStore ==
    [][/\ \A c \in Calls :
            TrustReturns(c) /\ last'.outcome # "True"
                => rows' = rows
       /\ \A a \in Addrs :
            Written(a) # {}
                => /\ last'.op = "trust" /\ last'.ip = a /\ last'.outcome = "True"
                   /\ \E c \in Calls : TrustReturns(c) /\ calls[c].ip = a]_vars

\* a trust(A) has failed and the existing row of A still has the expiry of
\* an earlier hour
C1_Witness ==
    /\ last.op = "trust" /\ last.outcome \in {"False", "FirewallError"}
    /\ \E x \in rows : x.ip_address = last.ip
                       /\ x.expires_at < now + IP_EXPIRATION_HOURS
                       /\ x.expires_at = x.created_at + IP_EXPIRATION_HOURS

\* C2: trust(A) calls that overlap in time and whose remote commands succeed
\* leave exactly one row for A, the call that saves second extends the row
\* of the first, and no call ends with the error of the unique constraint.
C2_ConcurrentTrustOneRow ==
    [][/\ last'.outcome # "FirewallError(IntegrityError)"
       /\ \A c \in Calls :
            TrustReturns(c) /\ last'.outcome = "True"
                => /\ Cardinality({x \in rows' : x.ip_address = calls[c].ip}) = 1
                   /\ \A y \in rows : y.ip_address = calls[c].ip
                        => \E x \in rows' : /\ x.id = y.id
                                            /\ x.ip_address = y.ip_address
                                            /\ x.created_at = y.created_at
                                            /\ x.expires_at >= y.expires_at]_vars

\* of two overlapping trust(A) calls the one that began second has returned
\* True after the other one, and the row of A is the first one's, extended
C2_Witness ==
    /\ last.op = "trust" /\ last.outcome = "True" /\ last.overlap
    /\ TrustsInFlight(last.ip) = {}
    /\ \E x \in rows : x.ip_address = last.ip
                       /\ x.expires_at > x.created_at + IP_EXPIRATION_HOURS

\* C3: the store never holds two rows for one address, whatever trust,
\* revoke and sweeper operations have run.
C3_OneRowPerAddress ==
    \A x, y \in rows : x.ip_address = y.ip_address => x = y

\* a second trust has extended the row its address already had
C3_Witness ==
    /\ last.op = "trust" /\ last.outcome = "True"
    /\ \E x \in rows : x.ip_address = last.ip
                       /\ x.expires_at > x.created_at + IP_EXPIRATION_HOURS
                       /\ x.expires_at = now + IP_EXPIRATION_HOURS

\* C4: a trust(A) that succeeds at time t2 on an address that has a row
\* leaves the one row of A with expires_at = t2 + 2, never earlier than the
\* expiry it had, and strictly later when the earlier success was at t1 < t2.
C4_RenewalExtends ==
    [][\A c \in Calls :
         TrustReturns(c) /\ last'.outcome = "True"
            => \A y \in rows : y.ip_address = calls[c].ip
                 => /\ {x \in rows' : x.ip_address = calls[c].ip}
                        = {[y EXCEPT !.expires_at = now + 2, !.user_id = calls[c].user]}
                    /\ y.expires_at <= now + 2
                    /\ (y.expires_at - 2 < now => y.expires_at < now + 2)]_vars

\* a row created at t1 has been renewed at t2 > t1 inside its two hours
C4_Witness ==
    /\ last.op = "trust" /\ last.outcome = "True"
    /\ \E x \in rows : /\ x.ip_address = last.ip
                       /\ x.created_at < now
                       /\ now <= x.created_at + 2
                       /\ x.expires_at = now + 2

\* C5: a sweeper run started at time T (whose delete is committed) deletes
\* exactly the rows with expires_at <= T and leaves the rows with
\* expires_at > T.
C5_DeletesExactlyExpired ==
    [][\A r \in Runs :
         RunEnds(r) /\ sw'[r].end = "returned"
            => rows' = {x \in rows : x.expires_at > sw[r].cutoff}]_vars

\* C6: the rows a sweeper run deletes are among the rows it selected at its
\* start.
C6_DeletesOnlySelected ==
    [][\A r \in Runs :
         RunEnds(r) => (rows \ rows') \subseteq Range(sw[r].expired)]_vars

\* C7: after revoke(A) has returned, whatever the remote command did, the
\* store has no row for A.
C7_RevokeAlwaysDeletes ==
    [][\A c \in Calls :
         UntrustReturns(c) => {x \in rows' : x.ip_address = calls[c].ip} = {}]_vars

\* C8: in a sweeper run an untrust command is sent for every selected row
\* whose owner has an SSH account, also after the command for another row
\* of the run has failed: when the command for expired[i] is in flight every
\* earlier such row has had its attempt, and the run ends only when no such
\* row is left.
C8_FailureDoesNotStopRun ==
    [][\A r \in Runs :
         LET run == sw[r] IN
         /\ run.pc = "await"
              => \A j \in 1..(run.i - 1) :
                   HasAccount(run.expired[j])
                     => run.expired[j].ip_address \in run.removed_ips \cup run.failed
         /\ RunEnds(r)
              => \A j \in (run.i + 1)..Len(run.expired) : ~HasAccount(run.expired[j])
         /\ run.pc = "await" /\ sw'[r].pc = "await" /\ sw'[r] # run
              => /\ sw'[r].i > run.i
                 /\ \A j \in (run.i + 1)..(sw'[r].i - 1) : ~HasAccount(run.expired[j])]_vars

\* the untrust for an address of one account has failed and the command for
\* an address of another account is in flight in the same run
C8_Witness ==
    \E r \in Runs :
        /\ sw[r].pc = "await"
        /\ \E j \in 1..(sw[r].i - 1) :
             /\ sw[r].expired[j].ip_address \in sw[r].failed
             /\ HostOf(sw[r].expired[j]) # HostOf(sw[r].expired[sw[r].i])

\* C9: when a sweeper run ends (its delete and commit done), every row it
\* selected that is still in the store as selected (not renewed or revoked
\* meanwhile) is deleted, the rows whose remote untrust failed included.
C9_SelectedRowsDeleted ==
    [][\A r \in Runs :
         RunEnds(r) /\ sw'[r].end = "returned"
            => \A x \in Range(sw[r].expired) : x \in rows => x \notin rows']_vars

\* a run has ended whose untrust failed for an address, and the row of that
\* address is deleted
C9_Witness ==
    \E r \in Runs :
        /\ sw[r].pc = "idle"
        /\ sw[r].failed # {}
        /\ sw[r].failed \subseteq sw[r].deleted
        /\ \A x \in rows : x.ip_address \notin sw[r].failed

\* C10: at most one sweeper run is in flight, and the scheduler's count of
\* running instances is the number of runs in flight; a trigger that fired
\* during a run was skipped.
C10_OneRunAtATime ==
    /\ Cardinality(Running) <= 1
    /\ instances = Cardinality(Running)
    /\ skipped => Running # {}

\* the trigger has fired while a run was suspended in a remote command, and
\* was skipped
C10_Witness == skipped /\ Cardinality(Running) = 1 /\ instances = 1

C12_RejectedTrustRaises ==
    [][\A c \in Calls, db \in SaveResults :
         TrustIpResume(c, "Error", db)
            => /\ last'.outcome \notin {"True", "False"}
               /\ IsFirewallError(last'.outcome)
               /\ last'.outcome # "FirewallError"]_vars

\* C13: when the sweeper deletes the expired row of an address in a run whose
\* remote commands (if any) succeeded, the address is no longer trusted on
\* the host the successful trust put it on, whoever the caller was.
C13_SweeperUntrustsWhereTrusted ==
    [][(\/ Trigger("ok")
        \/ \E r \in Runs : /\ SweepResume(r, "Success", "ok")
                            /\ sw[r].removed_ips = {} /\ sw[r].failed = {})
          => \A x \in rows \ rows' :
               \A h \in Hosts : x.ip_address \notin remote'[h]]_vars

\* C14: a successful trust(A, caller) puts A in the trusted zone of the host
\* of the caller's SSH account (of the default host only when the caller has
\* no account) and changes no other host.
C14_TrustGoesToTenantHost ==
    [][\A c \in Calls, db \in SaveResults :
         TrustIpResume(c, "Success", db)
            => LET caller == [user_id |-> calls[c].user]
                   host == IF HasAccount(caller) THEN HostOf(caller) ELSE DefaultHost
               IN /\ calls[c].ip \in remote'[host]
                  /\ \A h \in Hosts \ {host} : remote'[h] = remote[h]]_vars

\* C15: a sweeper run deletes rows only after it has issued the untrust
\* command of every row it selected: a run that awaited no command deletes
\* nothing, and when a run ends each selected row's address is among those
\* a command was issued for.
C15_OneUntrustPerSelectedRow ==
    [][/\ (\E db \in DbResults : Trigger(db)) => rows' = rows
       /\ \A r \in Runs :
            RunEnds(r)
              => \A x \in Range(sw[r].expired) :
                   x.ip_address \in sw[r].removed_ips \cup sw[r].failed
                                    \cup {sw[r].expired[sw[r].i].ip_address}]_vars

\* the local trust state of address a in a table: the empty set (Absent) or
\* the expiry of its row (Trusted)
ExpiryIn(table, a) == {x.expires_at : x \in {y \in table : y.ip_address = a}}

TrustSucceeds(a) ==
    \E c \in Calls : TrustReturns(c) /\ calls[c].ip = a /\ last'.outcome = "True"

RevokeSucceeds(a) ==
    \E c \in Calls : UntrustReturns(c) /\ calls[c].ip = a /\ last'.outcome = "True"

SweeperStep ==
    \/ \E db \in DbResults : Trigger(db)
    \/ \E r \in Runs, out \in Replies, db \in DbResults : SweepResume(r, out, db)

\* C16: the local trust state of an address changes only from Absent to
\* Trusted in a successful trust, from Trusted(T) to Trusted(T') with T' > T
\* in a successful trust, and from Trusted(T) to Absent in a sweeper step
\* with T < now or in a successful revoke; no step lowers the expires_at of
\* a row.
C16_OnlyLifecycleTransitions ==
    [][/\ \A a \in Addrs :
            LET s == ExpiryIn(rows, a)
                t == ExpiryIn(rows', a)
            IN s # t =>
                 \/ s = {} /\ Cardinality(t) = 1 /\ TrustSucceeds(a)
                 \/ /\ s # {} /\ Cardinality(t) = 1
                    /\ \A T1 \in s, T2 \in t : T2 > T1
                    /\ TrustSucceeds(a)
                 \/ /\ s # {} /\ t = {}
                    /\ \/ SweeperStep /\ \A T1 \in s : T1 < now
                       \/ RevokeSucceeds(a)
       /\ \A x \in rows, y \in rows' :
            x.id = y.id /\ x.ip_address = y.ip_address
                => y.expires_at >= x.expires_at]_vars

\* an address whose expired row the sweeper deleted has been trusted again,
\* with a new row
C16_Witness ==
    \E r \in Runs, x \in rows :
        /\ sw[r].pc = "idle"
        /\ x.ip_address \in sw[r].deleted
        /\ x.created_at > IP_EXPIRATION_HOURS
        /\ x.expires_at = x.created_at + IP_EXPIRATION_HOURS

\* C17: a row whose expires_at has passed does not stay in the store for
\* ever: it is deleted (or renewed, which gives the row a new expiry).
C17_ExpiredRowEventuallyDeleted ==
    \A a \in Addrs, t \in 0..(MaxTime + IP_EXPIRATION_HOURS) :
        (t \in ExpiryIn(rows, a) /\ t < now) ~> (t \notin ExpiryIn(rows, a))

\* a run of the job whose commands all succeeded has deleted expired rows
\* and no expired row is left
C17_Witness ==
    \E r \in Runs :
        /\ sw[r].pc = "idle" /\ sw[r].end = "returned"
        /\ sw[r].deleted # {} /\ sw[r].failed = {}
        /\ \A x \in rows : ~IsExpiredAt(x, now)

\* C18: a run of the cleanup job always ends by returning: whether a remote
\* command, the select, the delete or the commit raised, the exception is
\* printed and does not leave the job; a failed select or commit leaves the
\* store as it was, and the scheduler is left free to start the next run.
C18_RunNeverRaises ==
    [][\A r \in Runs :
         sw'[r] # sw[r] /\ sw'[r].pc = "idle"
            => /\ sw'[r].end \in {"returned", "error logged"}
               /\ sw'[r].end = "error logged" => rows' = rows
               /\ instances' < MaxInstances
               /\ \A q \in Runs : sw'[q].pc = "idle"]_vars

\* a run in which an untrust command raised and then the commit raised has
\* ended with the error logged, its expired rows still in the store
C18_Witness ==
    \E r \in Runs :
        /\ sw[r].pc = "idle" /\ sw[r].end = "error logged"
        /\ sw[r].failed # {}
        /\ instances = 0
        /\ \E x \in rows : x.ip_address \in sw[r].failed /\ IsExpiredAt(x, now)

\* C19: every user's account_id is empty or names a row of ssh_accounts, and
\* a delete of an account that a user references is refused (400) and
\* changes nothing.
C19_AccountReferencesValid ==
    [][/\ \A u \in users' :
            u.account_id = NULL \/ \E a \in accounts' : a.id = u.account_id
       /\ \A id \in 1..MaxAccountId :
            DeleteAccount(TRUE, id) /\ UsersOfAccount(id) # {}
                => adm'.status = 400 /\ accounts' = accounts /\ users' = users]_vars

\* C20: every row has expires_at > created_at, and the row a first
\* successful trust creates at time T0 has created_at = T0 and
\* expires_at = created_at + 2.
C20_ExpiryAfterCreation ==
    [][/\ \A x \in rows' : x.expires_at > x.created_at
       /\ \A c \in Calls :
            TrustReturns(c) /\ last'.outcome = "True" /\ Existing(calls[c].ip) = {}
                => \E x \in rows' : /\ x.ip_address = calls[c].ip
                                    /\ x.created_at = now
                                    /\ x.expires_at = x.created_at + 2
                                    /\ x.expires_at = now + 2]_vars

\* a first trust of an address has just created its row, at a time T0 > 0
C20_Witness ==
    /\ last.op = "trust" /\ last.outcome = "True" /\ now > 0
    /\ \E x \in rows : /\ x.ip_address = last.ip
                       /\ x.created_at = now
                       /\ x.expires_at = now + 2

C22_RemoteCommandsBounded ==
    /\ \A c \in Calls : (calls[c].pc = "await") ~> (calls[c].pc = "idle")
    /\ \A r \in Runs : (sw[r].pc = "await") ~> (sw[r].pc = "idle")

\* a dotted quad (of the strings in use)
IsAddress(ip) == ip \in {"10.0.0.1", "10.0.0.5", "10.0.0.6"}

\* C23: every address string that is put into a remote trust or untrust
\* command has the syntax of an address: a login whose client address is not
\* one issues no command, and no row holds such a string for the sweeper to
\* put in a command.
C23_OnlyValidAddressesInCommands ==
    /\ \A c \in Calls : calls[c].pc = "await" => IsAddress(calls[c].ip)
    /\ \A r \in Runs :
         sw[r].pc = "await" => IsAddress(sw[r].expired[sw[r].i].ip_address)

\* C24: is_ip_trusted(A) is True exactly when A or A/32 is one of the entry
\* lines of the listing the host prints (the non-empty lines after the
\* header), which is when A is in the host's trusted zone, whatever rows the
\* store holds; when the listing cannot be obtained it returns False and
\* raises nothing.
C24_IsTrustedFromLiveListing ==
    [][\A ip \in {last'.ip} \cap ListedAddrs :
         /\ IsIpTrusted(ip, Raised) => last'.outcome = "False"
         /\ \A l \in Listings(remote[DefaultHost]) :
              IsIpTrusted(ip, Printed(Render(l)))
                => /\ last'.outcome \in {"True", "False"}
                   /\ last'.outcome = "True"
                        <=> \E i \in DOMAIN l.entries :
                              l.entries[i] \in {ip, ip \o "/32"}
                   /\ last'.outcome = "True" <=> ip \in remote[DefaultHost]]_vars

\* is_ip_trusted has returned True for an address that the zone holds and
\* the store does not
C24_Witness ==
    /\ last.op = "is_ip_trusted" /\ last.outcome = "True"
    /\ \A x \in rows : x.ip_address # last.ip
    /\ rows # {}
    /\ Cardinality(remote[DefaultHost]) > 1

\* nothing in flight: no request awaits a command and the job is not running
Quiescent ==
    /\ \A c \in Calls : calls[c].pc = "idle"
    /\ \A r \in Runs : sw[r].pc = "idle"

\* C25: the sweeper does not undo a foreground trust: when a run's untrust
\* command has succeeded and nothing is in flight any more, every address
\* with a row that is not expired is trusted on the firewall that its trust
\* command went to (a run never sends the untrust of a row it selected after
\* a trust has renewed that row).
C25_SweeperNeverUndoesRenewal ==
    [][\A r \in Runs :
         SweepResume(r, "Success", "ok") /\ Quiescent'
            => \A x \in rows' :
                 ~IsExpiredAt(x, now) => x.ip_address \in remote'[DefaultHost]]_vars

\* C26: once an admin user exists the admin_users table is never empty
\* again: a delete-admin request that finds one admin left is refused and
\* changes nothing, and setup creates an admin only while there is none.
C26_AdminCountNeverZero ==
    [][/\ admins # {} => admins' # {}
       /\ \A cred \in AdminCredentials, id \in 1..MaxAdminId :
            DeleteAdminUser(cred, id) /\ Cardinality(admins) = 1
                => adm'.status \in {400, 401} /\ admins' = admins
       /\ \A new \in AdminCredentials :
            SetupFirstAdmin(new)
                => /\ adm'.status = 201 <=> admins = {}
                   /\ adm'.status # 201 => admins' = admins]_vars

\* of two admins the first has been deleted, and the delete of the one that
\* is left has been refused
C26_Witness ==
    /\ adm.op = "delete_admin" /\ adm.status = 400
    /\ Cardinality(admins) = 1
    /\ \A a \in admins : a.id > 1

====
